---- MODULE Spec2Model ----
(***************************************************************************)
(* Model of the payout bot (src/main.py): the periodic check cycle        *)
(* (check_payouts), the admission decision (notify_users,                 *)
(* handle_auto_mode, send_manual_notification), the callback handlers     *)
(* behind the buttons (handle_accept_callback, handle_cancel_callback)    *)
(* and the backend and files they read and write.  Every coroutine is     *)
(* split at its await points.                                             *)
(***************************************************************************)
EXTENDS Integers, Sequences, FiniteSets, TLC

VARIABLES
    now,         \* current UTC time, in seconds
    allPayouts,  \* backend: GET /payouts
    pending,     \* backend: GET /pending-payouts, in the backend's order
    ledgerFile,  \* processed_uuids.json
    autoFile,    \* auto_mode.json
    userIds,     \* user_ids.json
    cyc,         \* locals of each running check_payouts call
    filtered,    \* history: the intake filter the last step ran
    decided,     \* history: the notify_users calls the last step finished
    nSelected,   \* history: how often the intake filter selected each uuid
    chat,        \* the notifications with a keyboard, per operator and payout
    clk,         \* locals of the running callback handler
    served,      \* history: the handler invocation the last step finished
    fsm,         \* aiogram FSM state of each operator's chat
    said         \* history: the operator message the last step handled

vars == <<now, allPayouts, pending, ledgerFile, autoFile, userIds, cyc,
          filtered, decided, nSelected, chat, clk, served, fsm, said>>

----------------------------------------------------------------------------
(* Program constants and bounds *)

CAPACITY == 5

OFFER_MAX == 4

RECENT_MINUTES == 5

RecentSeconds == RECENT_MINUTES * 60

\* seconds of the +03 offset the backend writes creation_time with
TzShift == 3 * 3600

MaxPayouts == 2

MaxTicks == 1

\* clicks an operator makes on one notification
MaxClicks == 3

Procs == {"poll", "update"}

Users == {"u1"}

NewUuids == <<"A", "B", "C">>

----------------------------------------------------------------------------
(* Amounts as the backend sends them, and Python's float() of them *)

Num(n) == [k |-> "num", v |-> n]

NaN == [k |-> "nan", v |-> 0]

PosInf == [k |-> "inf", v |-> 0]

NegInf == [k |-> "ninf", v |-> 0]

Bad == [k |-> "bad", v |-> 0]

\* float(x) raises ValueError/TypeError
FloatRaises(a) == a.k = "bad"

\* math.isfinite(float(x))
IsFinite(a) == a.k = "num"

\* a < b on Python floats (a, b parsed): every comparison with NaN is False
FloatLt(a, b) ==
    CASE a.k = "nan" \/ b.k = "nan" -> FALSE
      [] a.k = "ninf" -> b.k # "ninf"
      [] a.k = "inf" -> FALSE
      [] OTHER -> b.k = "inf" \/ (b.k = "num" /\ a.v < b.v)

FloatGt(a, b) == FloatLt(b, a)

FloatLe(a, b) ==
    CASE a.k = "nan" \/ b.k = "nan" -> FALSE
      [] OTHER -> a = b \/ FloatLt(a, b)

----------------------------------------------------------------------------
(* Creation times: a wall-clock reading and an optional UTC offset *)

\* date_parser.parse + replace(tzinfo=utc) / astimezone(utc)
ToUtc(ct) == IF ct.tz = "naive" THEN ct.local ELSE ct.local - TzShift

\* variant: the payout on the edge of the window counts as old
IsRecentStrict(ct, t) == ToUtc(ct) > t - RecentSeconds

\* creation_time >= current_time_utc - timedelta(minutes=RECENT_MINUTES)
IsRecent(ct, t) == ToUtc(ct) >= t - RecentSeconds

----------------------------------------------------------------------------
(* Records *)

None == [some |-> FALSE, v |-> Num(0)]

Some(x) == [some |-> TRUE, v |-> x]

\* the tuple load_auto_mode returns
AutoMode(enabled, lo, hi) == [enabled |-> enabled, min |-> lo, max |-> hi]

Payout(u, a, ct) == [uuid |-> u, amount |-> a, ctime |-> ct]

Naive(t) == [local |-> t, tz |-> "naive"]

Plus03(t) == [local |-> t + TzShift, tz |-> "+03"]

NoPayout == Payout("", Num(0), Naive(0))

\* a sequence's elements
Range(s) == {s[j] : j \in 1..Len(s)}

Uuids(s) == {s[j].uuid : j \in 1..Len(s)}

IdleCyc ==
    [pc |-> "idle", loaded |-> {}, processed |-> {}, allSnap |-> <<>>,
     recent |-> <<>>, i |-> 0,
     cfg |-> AutoMode(FALSE, None, None), route |-> "none", users |-> {},
     fetched |-> <<>>, victim |-> NoPayout, muts |-> <<>>]

----------------------------------------------------------------------------
(* Inputs the backend and the files can hold *)

\* pending lists of the backend at start, by amount
InitPendingAmounts ==
    { <<>>,
      <<Num(3)>>,
      <<NegInf, Bad>>,
      <<Num(5), Num(1), Num(1), Num(3)>>,
      <<Num(3), Num(1), Num(3), Num(1), Num(5)>>,
      <<Num(3), Num(3), Num(3), Num(3), Num(1)>>,
      <<NaN, Num(1), Num(3), Num(3), Num(5)>>,
      <<Num(3), Bad, Num(1), Num(3), Num(5)>> }

OldUuid(j) == <<"p1", "p2", "p3", "p4", "p5", "p6">>[j]

InitPending(amts) == [j \in 1..Len(amts) |-> Payout(OldUuid(j), amts[j], Naive(0))]

InitAutoModes ==
    { AutoMode(FALSE, None, None),
      AutoMode(TRUE, None, None),
      AutoMode(TRUE, Some(Num(3)), Some(Num(3))) }

\* amount and creation_time of a payout the backend lists when the clock
\* reads t: created one second inside the recency window (timezone-naive
\* string) or exactly on its edge (string with a +03 offset)
NewKinds(t) ==
    { <<Num(2), Naive(t - RecentSeconds + 1)>>,
      <<Num(3), Plus03(t - RecentSeconds)>>,
      <<Num(4), Naive(t - RecentSeconds + 1)>>,
      <<Bad, Plus03(t - RecentSeconds)>> }

\* result of a GET: the list, or [] after a transport error or non-200
FetchResults(list) == {list, <<>>}

\* result of a POST: 200 with the id under "success", 200 with the id under
\* "error", or a non-200 status
Outcomes == {"ok", "refused", "error"}

Status200(out) == out # "error"

----------------------------------------------------------------------------
(* Intake filter: check_payouts, lines 391-436 *)

\* variant: non-finite pending amounts are compared too
PendingAmountsAnyFloat(pend) ==
    LET amts == [j \in 1..Len(pend) |-> pend[j].amount]
        Keep(a) == ~FloatRaises(a)
    IN  SelectSeq(amts, Keep)

\* pending_amounts
PendingAmounts(pend) ==
    LET amts == [j \in 1..Len(pend) |-> pend[j].amount]
        Keep(a) == ~FloatRaises(a) /\ IsFinite(a)
    IN  SelectSeq(amts, Keep)

\* variant: the amount has to exceed every pending amount
ExceedsAll(a, comparable) ==
    \A j \in 1..Len(comparable) : FloatGt(a, comparable[j])

\* any(amount > pending_amount for pending_amount in pending_amounts)
ExceedsSome(a, comparable) ==
    \E j \in 1..Len(comparable) : FloatGt(a, comparable[j])

\* date_parser.parse raises
TimeRaises(ct) == ct.tz = "bad"

\* variant: the ledger is not consulted
NotProcessedAnyLedger(po, processed) == po.uuid # ""

\* uuid and uuid not in processed_uuids
NotProcessed(po, processed) == po.uuid # "" /\ po.uuid \notin processed

\* the body of the loop over all_payouts: the payout is appended
Qualifies(po, processed, comparable, t) ==
    /\ NotProcessed(po, processed)
    /\ ~FloatRaises(po.amount)
    /\ ExceedsSome(po.amount, comparable)
    /\ ~TimeRaises(po.ctime)
    /\ IsRecent(po.ctime, t)

\* recent_new_payouts
SelectNew(all, pend, processed, t) ==
    IF Len(pend) = 0 \/ Len(all) = 0 THEN <<>>
    ELSE LET comparable == PendingAmounts(pend)
             Test(po) == Qualifies(po, processed, comparable, t)
         IN  IF Len(comparable) = 0 THEN <<>> ELSE SelectSeq(all, Test)

----------------------------------------------------------------------------
(* Eviction choice: handle_auto_mode, line 312 *)

\* the key function of min() raises on some item
MinRaises(pend) == \E j \in 1..Len(pend) : FloatRaises(pend[j].amount)

\* index min() ends with, having scanned pend[1..n]: the first item is kept
\* until a later key compares strictly smaller
RECURSIVE MinIndex(_, _)
MinIndex(pend, n) ==
    IF n <= 1 THEN n
    ELSE LET best == MinIndex(pend, n - 1)
         IN  IF FloatLt(pend[n].amount, pend[best].amount) THEN n ELSE best

\* smallest_payout
SmallestPayout(pend) == pend[MinIndex(pend, Len(pend))]

----------------------------------------------------------------------------
(* Admission decision: notify_users, handle_auto_mode *)

\* amount_value
AmountValue(po) == IF FloatRaises(po.amount) THEN Num(0) ELSE po.amount

\* variant: the bounds of the range are excluded
OutsideRangeOpen(cfg, a) ==
    /\ cfg.min.some /\ cfg.max.some
    /\ ~(FloatLt(cfg.min.v, a) /\ FloatLt(a, cfg.max.v))

\* not (min_amount <= amount_value <= max_amount), under a configured range
OutsideRange(cfg, a) ==
    /\ cfg.min.some /\ cfg.max.some
    /\ ~(FloatLe(cfg.min.v, a) /\ FloatLe(a, cfg.max.v))

\* variant: a new payout is accepted outright with 5 pending as well
AutoBranchAtCapacity(cfg, po, fetched) ==
    IF OutsideRange(cfg, AmountValue(po)) THEN "manual"
    ELSE IF Len(fetched) <= CAPACITY THEN "accept"
    ELSE IF MinRaises(fetched) THEN "raise"
    ELSE "evict"

\* what handle_auto_mode does once the pending list is fetched
AutoBranch(cfg, po, fetched) ==
    IF OutsideRange(cfg, AmountValue(po)) THEN "manual"
    ELSE IF Len(fetched) < CAPACITY THEN "accept"
    ELSE IF MinRaises(fetched) THEN "raise"
    ELSE "evict"

\* the branch notify_users takes
UseAuto(cfg) == cfg.enabled

\* the record kept of a finished notify_users call
Decision(c, route, fetched, muts, sent) ==
    [uuid |-> c.recent[c.i].uuid, amount |-> c.recent[c.i].amount,
     cfg |-> c.cfg, route |-> route, fetched |-> fetched, muts |-> muts,
     victim |-> c.victim, sent |-> sent, loaded |-> c.loaded]

\* base64.b64encode(uuid.encode()).decode(): the text put in callback_data
Encode(u) == [b64 |-> u]

\* base64.b64decode(text).decode(); None, here "", when it raises
Decode(data) == IF DOMAIN data = {"b64"} THEN data.b64 ELSE ""

\* InlineKeyboardButton with callback_data accept_<data> or cancel_<idx>_<data>
Button(op, idx, u) == [op |-> op, idx |-> idx, data |-> Encode(u)]

\* one numbered button per item of the list, each carrying the new payout
EvictKeyboard(u, got) == [j \in 1..Len(got) |-> Button("cancel", j - 1, u)]

\* variant: the single accept button is offered below 4 pending only
KeyboardOfferBelow(u, got) ==
    IF Len(got) < OFFER_MAX THEN <<Button("accept", 0, u)>>
    ELSE EvictKeyboard(u, got)

\* the keyboard send_manual_notification builds
Keyboard(u, got) ==
    IF Len(got) <= OFFER_MAX THEN <<Button("accept", 0, u)>>
    ELSE EvictKeyboard(u, got)

\* a message delivered to an operator
Message(usr, kind, u, list, buttons) ==
    [to |-> usr, kind |-> kind, uuid |-> u, list |-> list, buttons |-> buttons]

\* a notification as it stands on the operator's screen: the pending items
\* it lists, its buttons, and what the handlers appended to it
Notice(state, list, buttons, start, clicks, clean) ==
    [state |-> state, list |-> list, buttons |-> buttons, start |-> start,
     clicks |-> clicks, clean |-> clean]

NoNotice == Notice("none", <<>>, <<>>, 0, 0, TRUE)

IdleClk ==
    [pc |-> "idle", op |-> "none", key |-> <<"", "">>, uuid |-> "", k |-> 0,
     rendered |-> <<>>, fetched |-> <<>>, nfetch |-> 0, target |-> "",
     updated |-> <<>>, muts |-> <<>>]

\* the synchronous code from the start of recent_new_payouts[j] to its first
\* await, or through save_processed_uuids after the last payout
RECURSIVE StartFrom(_, _)
StartFrom(c, j) ==
    IF j > Len(c.recent)
    THEN [c |-> IdleCyc, decs |-> {}, save |-> TRUE, ledger |-> c.processed]
    ELSE LET cj == [c EXCEPT !.i = j, !.cfg = autoFile, !.users = userIds,
                             !.fetched = <<>>, !.victim = NoPayout,
                             !.muts = <<>>, !.route = "none"]
         IN  IF UseAuto(autoFile)
             THEN [c |-> [cj EXCEPT !.pc = "auto_fetch", !.route = "auto"],
                   decs |-> {}, save |-> FALSE, ledger |-> {}]
             ELSE IF userIds = {}
             THEN LET r == StartFrom(
                              [cj EXCEPT !.processed = @ \cup {c.recent[j].uuid}],
                              j + 1)
                  IN  [r EXCEPT !.decs = @ \cup {Decision(cj, "manual", <<>>, <<>>, {})}]
             ELSE [c |-> [cj EXCEPT !.pc = "manual_fetch", !.route = "manual"],
                   decs |-> {}, save |-> FALSE, ledger |-> {}]

\* variant: a payout whose mutation failed is left out of the ledger
FinishOnlySucceeded(p, c, dec) ==
    LET failed == \E j \in 1..Len(dec.muts) : dec.muts[j].out # "ok"
        r == StartFrom([c EXCEPT !.processed =
                            IF failed THEN @ ELSE @ \cup {c.recent[c.i].uuid}],
                       c.i + 1)
    IN  /\ cyc' = [cyc EXCEPT ![p] = r.c]
        /\ decided' = {dec} \cup r.decs
        /\ ledgerFile' = IF r.save THEN r.ledger ELSE ledgerFile

\* variant: every selected payout is marked as soon as the first is handled
FinishMarkingAll(p, c, dec) ==
    LET r == StartFrom([c EXCEPT !.processed = @ \cup Uuids(c.recent)],
                       c.i + 1)
    IN  /\ cyc' = [cyc EXCEPT ![p] = r.c]
        /\ decided' = {dec} \cup r.decs
        /\ ledgerFile' = IF r.save THEN r.ledger ELSE ledgerFile

\* notify_users returned for recent_new_payouts[i]: processed_uuids.add, then
\* the next payout or save_processed_uuids
Finish(p, c, dec) ==
    LET r == StartFrom([c EXCEPT !.processed = @ \cup {c.recent[c.i].uuid}],
                       c.i + 1)
    IN  /\ cyc' = [cyc EXCEPT ![p] = r.c]
        /\ decided' = {dec} \cup r.decs
        /\ ledgerFile' = IF r.save THEN r.ledger ELSE ledgerFile

----------------------------------------------------------------------------
(* Backend effects of the two mutations *)

Find(list, u) == CHOOSE j \in 1..Len(list) : list[j].uuid = u

Remove(list, u) ==
    LET Keep(po) == po.uuid # u IN SelectSeq(list, Keep)

\* POST /accept-payouts {"ids": [u]} can put u among the pending payouts
CanAccept(u) == u \in Uuids(allPayouts) /\ u \notin Uuids(pending)

AfterAccept(u, out) ==
    IF out = "ok" THEN Append(pending, allPayouts[Find(allPayouts, u)])
    ELSE pending

\* POST /cancel-payouts {"ids": [u]} can take u out of the pending payouts
CanCancel(u) == u \in Uuids(pending)

AfterCancel(u, out) == IF out = "ok" THEN Remove(pending, u) ELSE pending

Mutation(op, u, out) == [op |-> op, uuid |-> u, out |-> out]

----------------------------------------------------------------------------
(* Initial state *)

Init ==
    /\ now = 0
    /\ allPayouts = <<>>
    /\ pending \in {InitPending(amts) : amts \in InitPendingAmounts}
    /\ ledgerFile = {}
    /\ autoFile \in InitAutoModes
    /\ userIds \in SUBSET Users
    /\ cyc = [p \in Procs |-> IdleCyc]
    /\ filtered = {}
    /\ decided = {}
    /\ nSelected = [u \in Range(NewUuids) |-> 0]
    /\ chat = [key \in Users \X Range(NewUuids) |-> NoNotice]
    /\ clk = IdleClk
    /\ served = {}
    /\ fsm = [u \in Users |-> "none"]
    /\ said = {}

----------------------------------------------------------------------------
(* check_payouts, one action per await *)

\* line 384, up to the await of fetch_payouts
CycleStart(p) ==
    /\ cyc[p].pc = "idle"
    /\ cyc' = [cyc EXCEPT ![p] = [IdleCyc EXCEPT !.pc = "fetch_all",
                                                 !.loaded = ledgerFile,
                                                 !.processed = ledgerFile]]
    /\ filtered' = {}
    /\ decided' = {}
    /\ served' = {}
    /\ UNCHANGED <<chat, clk, now, allPayouts, pending, ledgerFile, autoFile, userIds,
                   nSelected>>
    /\ said' = {}
    /\ UNCHANGED fsm

\* line 388: fetch_payouts returns
FetchAll(p) ==
    /\ cyc[p].pc = "fetch_all"
    /\ \E got \in FetchResults(allPayouts) :
          cyc' = [cyc EXCEPT ![p].pc = "fetch_pending", ![p].allSnap = got]
    /\ filtered' = {}
    /\ decided' = {}
    /\ served' = {}
    /\ UNCHANGED <<chat, clk, now, allPayouts, pending, ledgerFile, autoFile, userIds,
                   nSelected>>
    /\ said' = {}
    /\ UNCHANGED fsm

\* lines 389-447: fetch_pending_payouts returns, the filter runs, and the
\* first selected payout is taken up to its first await
FetchPending(p) ==
    /\ cyc[p].pc = "fetch_pending"
    /\ \E got \in FetchResults(pending) :
          LET c == cyc[p]
              sel == SelectNew(c.allSnap, got, c.processed, now)
              r == StartFrom([c EXCEPT !.recent = sel], 1)
          IN  /\ filtered' = {[proc |-> p, all |-> c.allSnap, pend |-> got,
                                loaded |-> c.loaded, at |-> now,
                                selected |-> sel]}
              /\ IF sel = <<>>
                 THEN /\ cyc' = [cyc EXCEPT ![p] = IdleCyc]
                      /\ decided' = {}
                      /\ UNCHANGED <<ledgerFile, nSelected>>
                 ELSE /\ cyc' = [cyc EXCEPT ![p] = r.c]
                      /\ decided' = r.decs
                      /\ ledgerFile' = IF r.save THEN r.ledger ELSE ledgerFile
                      /\ nSelected' = [u \in DOMAIN nSelected |->
                                         IF u \in Uuids(sel) /\ nSelected[u] < 2
                                         THEN nSelected[u] + 1 ELSE nSelected[u]]
    /\ served' = {}
    /\ UNCHANGED <<chat, clk, now, allPayouts, pending, autoFile, userIds>>
    /\ said' = {}
    /\ UNCHANGED fsm

\* handle_auto_mode, lines 256-318: fetch_pending_payouts returns
AutoFetch(p) ==
    /\ cyc[p].pc = "auto_fetch"
    /\ \E got \in FetchResults(pending) :
          LET c == cyc[p]
              branch == AutoBranch(c.cfg, c.recent[c.i], got)
          IN  CASE branch = "manual" /\ userIds = {} ->
                     Finish(p, c, Decision(c, "manual", <<>>, <<>>, {}))
                [] branch = "manual" /\ userIds # {} ->
                     /\ cyc' = [cyc EXCEPT ![p].pc = "manual_fetch",
                                           ![p].route = "manual",
                                           ![p].users = userIds]
                     /\ decided' = {}
                     /\ UNCHANGED ledgerFile
                [] branch = "accept" ->
                     /\ cyc' = [cyc EXCEPT ![p].pc = "auto_accept",
                                           ![p].fetched = got]
                     /\ decided' = {}
                     /\ UNCHANGED ledgerFile
                [] branch = "raise" ->
                     Finish(p, c, Decision(c, "auto", got, <<>>, {}))
                [] branch = "evict" ->
                     /\ cyc' = [cyc EXCEPT ![p].pc = "auto_cancel",
                                           ![p].fetched = got,
                                           ![p].victim = SmallestPayout(got)]
                     /\ decided' = {}
                     /\ UNCHANGED ledgerFile
    /\ filtered' = {}
    /\ served' = {}
    /\ UNCHANGED <<chat, clk, now, allPayouts, pending, autoFile, userIds, nSelected>>
    /\ said' = {}
    /\ UNCHANGED fsm

\* variant: a failed cancel call is not caught and ends the periodic task
AutoCancelUncaught(p) ==
    /\ cyc[p].pc = "auto_cancel"
    /\ \E out \in Outcomes :
          LET c == cyc[p]
              u == c.victim.uuid
              muts == Append(c.muts, Mutation("cancel", u, out))
          IN  /\ out = "ok" => CanCancel(u)
              /\ pending' = AfterCancel(u, out)
              /\ cyc' = [cyc EXCEPT ![p].pc = IF Status200(out)
                                              THEN "auto_accept" ELSE "crashed",
                                    ![p].muts = muts]
              /\ decided' = {}
              /\ UNCHANGED ledgerFile
    /\ filtered' = {}
    /\ served' = {}
    /\ UNCHANGED <<chat, clk, now, allPayouts, autoFile, userIds, nSelected>>
    /\ said' = {}
    /\ UNCHANGED fsm

\* handle_auto_mode, lines 320-331 and 359-360: the cancel POST returns
AutoCancel(p) ==
    /\ cyc[p].pc = "auto_cancel"
    /\ \E out \in Outcomes :
          LET c == cyc[p]
              u == c.victim.uuid
              muts == Append(c.muts, Mutation("cancel", u, out))
          IN  /\ out = "ok" => CanCancel(u)
              /\ pending' = AfterCancel(u, out)
              /\ IF Status200(out)
                 THEN /\ cyc' = [cyc EXCEPT ![p].pc = "auto_accept",
                                            ![p].muts = muts]
                      /\ decided' = {}
                      /\ UNCHANGED ledgerFile
                 ELSE Finish(p, c, Decision(c, "auto", c.fetched, muts, {}))
    /\ filtered' = {}
    /\ served' = {}
    /\ UNCHANGED <<chat, clk, now, allPayouts, autoFile, userIds, nSelected>>
    /\ said' = {}
    /\ UNCHANGED fsm

\* handle_auto_mode, lines 283-306 and 333-358: the accept POST returns and,
\* on status 200, the operators are told
AutoAccept(p) ==
    /\ cyc[p].pc = "auto_accept"
    /\ \E out \in Outcomes, delivered \in SUBSET userIds :
          LET c == cyc[p]
              u == c.recent[c.i].uuid
              muts == Append(c.muts, Mutation("accept", u, out))
          IN  /\ out = "ok" => CanAccept(u)
              /\ ~Status200(out) => delivered = {}
              /\ pending' = AfterAccept(u, out)
              /\ Finish(p, c, Decision(c, "auto", c.fetched, muts,
                       {Message(usr, "auto", u, <<>>, <<>>) : usr \in delivered}))
    /\ filtered' = {}
    /\ served' = {}
    /\ UNCHANGED <<chat, clk, now, allPayouts, autoFile, userIds, nSelected>>
    /\ said' = {}
    /\ UNCHANGED fsm

\* send_manual_notification, lines 172-247: fetch_pending_payouts returns and
\* the message goes to each operator loaded at line 146
ManualFetch(p) ==
    /\ cyc[p].pc = "manual_fetch"
    /\ \E got \in FetchResults(pending), delivered \in SUBSET cyc[p].users :
          LET c == cyc[p]
              u == c.recent[c.i].uuid
              kind == IF Len(got) <= OFFER_MAX THEN "offer" ELSE "mustevict"
              list == IF kind = "offer" THEN <<>>
                      ELSE [j \in 1..Len(got) |-> got[j].uuid]
              kb == Keyboard(u, got)
          IN  /\ Finish(p, c, Decision(c, "manual", got, <<>>,
                       {Message(usr, kind, u, list, kb) : usr \in delivered}))
              /\ chat' = [key \in DOMAIN chat |->
                            IF key[1] \in delivered /\ key[2] = u
                            THEN Notice(kind, list, kb, Len(got), 0, TRUE)
                            ELSE chat[key]]
    /\ filtered' = {}
    /\ served' = {}
    /\ UNCHANGED <<clk, now, allPayouts, pending, autoFile, userIds, nSelected>>
    /\ said' = {}
    /\ UNCHANGED fsm

----------------------------------------------------------------------------
(* Callback handlers, one action per await.  A click whose first await,
   edit_reply_markup, raises ends the handler with nothing changed. *)

\* a mutation a handler issued, with the number of pending fetches the
\* invocation had made before it and the count the last of them returned
ClickMutation(op, u, out, nfetch, count) ==
    [op |-> op, uuid |-> u, out |-> out, after |-> nfetch, count |-> count]

\* the buttons are taken off the message the operator clicked
Pressed(key) ==
    [chat EXCEPT ![key].buttons = <<>>, ![key].state = "busy",
                 ![key].clicks = @ + 1]

\* the buttons an operator picks among n numbered ones: the first and the last
ClickIndexes(n) == {0, n - 1}

\* variant: the index is resolved against the list the message showed
CancelTargetRendered(rendered, got, k) == rendered[k + 1]

\* cancel_uuid = pending_payouts[cancel_index].get("uuid")
CancelTarget(rendered, got, k) == got[k + 1].uuid

\* variant: the list is shown again only above 5 pending
AfterEvictionAbove(got) == IF Len(got) > CAPACITY THEN "rerender" ELSE "accept"

\* the branch taken on updated_pending_count
AfterEviction(got) == IF Len(got) >= CAPACITY THEN "rerender" ELSE "accept"

\* the handler returns: its locals, with the message as it leaves it
Return(c, state) ==
    /\ clk' = IdleClk
    /\ served' = {[c EXCEPT !.pc = state]}

\* callback_query.data of a click on a button the bot made: the operation,
\* the text of the index and the encoded identifier
Sent(b) == [op |-> b.op, num |-> [digits |-> b.idx], data |-> b.data]

\* callback data a client can deliver in place of a button's own: an index
\* that is no number, no identifier part, an identifier that is not base64
Malformed(b) ==
    {[Sent(b) EXCEPT !.data = [missing |-> TRUE]],
     [Sent(b) EXCEPT !.data = [garbled |-> TRUE]]}
    \cup (IF b.op = "cancel"
          THEN {[Sent(b) EXCEPT !.num = [letters |-> TRUE]]} ELSE {})

\* int(parts[1]); None when it raises ValueError
ParseIndex(num) == IF DOMAIN num = {"digits"} THEN Some(num.digits) ELSE None

\* handle_accept_callback, lines 603-627, for the callback data d
AcceptClicked(key, d) ==
    LET c == [IdleClk EXCEPT !.op = "accept", !.key = key,
                             !.uuid = Decode(d.data)]
    IN  IF c.uuid = ""
        THEN /\ Return(c, "error_shown")
             /\ chat' = [Pressed(key) EXCEPT ![key].state = "error_shown"]
        ELSE /\ clk' = [c EXCEPT !.pc = "accept_post"]
             /\ served' = {}
             /\ chat' = Pressed(key)

\* handle_cancel_callback, lines 673-693, for the callback data d
CancelClicked(key, d) ==
    LET idx == ParseIndex(d.num)
        c == [IdleClk EXCEPT !.op = "cancel", !.key = key]
    IN  IF ~idx.some
        THEN /\ Return(c, "bad_button")
             /\ chat' = [chat EXCEPT ![key].clicks = @ + 1]
        ELSE /\ clk' = [c EXCEPT !.pc = "cancel_fetch", !.k = idx.v,
                                 !.uuid = Decode(d.data),
                                 !.rendered = chat[key].list]
             /\ served' = {}
             /\ chat' = Pressed(key)

\* handle_accept_callback, lines 603-627: the accept button is clicked
ClickAccept ==
    /\ clk.pc = "idle"
    /\ \E key \in DOMAIN chat : \E j \in 1..Len(chat[key].buttons) :
          LET b == chat[key].buttons[j]
          IN  /\ b.op = "accept"
              /\ chat[key].clicks < MaxClicks
              /\ AcceptClicked(key, Sent(b))
    /\ filtered' = {}
    /\ decided' = {}
    /\ UNCHANGED <<now, allPayouts, pending, ledgerFile, autoFile, userIds,
                   cyc, nSelected>>
    /\ said' = {}
    /\ UNCHANGED fsm

\* handle_accept_callback, lines 628-665: the accept POST returns
AcceptPost ==
    /\ clk.pc = "accept_post"
    /\ \E out \in Outcomes :
          LET state == IF Status200(out) THEN "accept_shown" ELSE "error_shown"
              muts == Append(clk.muts, ClickMutation("accept", clk.uuid, out,
                                                     clk.nfetch, 0))
          IN  /\ out = "ok" => CanAccept(clk.uuid)
              /\ pending' = AfterAccept(clk.uuid, out)
              /\ Return([clk EXCEPT !.muts = muts], state)
              /\ chat' = [chat EXCEPT ![clk.key].state = state]
    /\ filtered' = {}
    /\ decided' = {}
    /\ UNCHANGED <<now, allPayouts, ledgerFile, autoFile, userIds, cyc,
                   nSelected>>
    /\ said' = {}
    /\ UNCHANGED fsm

\* handle_cancel_callback, lines 673-693: a numbered button is clicked
ClickCancel ==
    /\ clk.pc = "idle"
    /\ \E key \in DOMAIN chat :
          \E j \in {i + 1 : i \in ClickIndexes(Len(chat[key].buttons))} :
             /\ j \in 1..Len(chat[key].buttons)
             /\ chat[key].buttons[j].op = "cancel"
             /\ chat[key].clicks < MaxClicks
             /\ CancelClicked(key, Sent(chat[key].buttons[j]))
    /\ filtered' = {}
    /\ decided' = {}
    /\ UNCHANGED <<now, allPayouts, pending, ledgerFile, autoFile, userIds,
                   cyc, nSelected>>
    /\ said' = {}
    /\ UNCHANGED fsm

\* handle_cancel_callback, lines 697-708: fetch_pending_payouts returns
CancelFetch ==
    /\ clk.pc = "cancel_fetch"
    /\ \E got \in FetchResults(pending) :
          LET c == [clk EXCEPT !.fetched = got, !.nfetch = 1]
          IN  IF clk.k >= Len(got)
              THEN /\ Return(c, "index_error")
                   /\ chat' = [chat EXCEPT ![clk.key].state = "index_error"]
              ELSE /\ clk' = [c EXCEPT !.pc = "cancel_post",
                                       !.target = CancelTarget(clk.rendered,
                                                               got, clk.k)]
                   /\ served' = {}
                   /\ UNCHANGED chat
    /\ filtered' = {}
    /\ decided' = {}
    /\ UNCHANGED <<now, allPayouts, pending, ledgerFile, autoFile, userIds,
                   cyc, nSelected>>
    /\ said' = {}
    /\ UNCHANGED fsm

\* handle_cancel_callback, lines 710-724 and 804-817: the cancel POST returns
CancelPost ==
    /\ clk.pc = "cancel_post"
    /\ \E out \in Outcomes :
          LET c == [clk EXCEPT !.muts = Append(@, ClickMutation("cancel",
                                   clk.target, out, clk.nfetch,
                                   Len(clk.fetched)))]
          IN  /\ out = "ok" => CanCancel(clk.target)
              /\ pending' = AfterCancel(clk.target, out)
              /\ IF Status200(out)
                 THEN /\ clk' = [c EXCEPT !.pc = "cancel_refetch"]
                      /\ served' = {}
                      /\ chat' = [chat EXCEPT ![clk.key].clean = @ /\ out = "ok"]
                 ELSE /\ Return(c, "cancel_error")
                      /\ chat' = [chat EXCEPT ![clk.key].clean = FALSE,
                                              ![clk.key].state = "cancel_error"]
    /\ filtered' = {}
    /\ decided' = {}
    /\ UNCHANGED <<now, allPayouts, ledgerFile, autoFile, userIds, cyc,
                   nSelected>>
    /\ said' = {}
    /\ UNCHANGED fsm

\* handle_cancel_callback, lines 727-777: the second fetch_pending_payouts
\* returns; the list is shown again or the new payout goes on to be accepted
CancelRefetch ==
    /\ clk.pc = "cancel_refetch"
    /\ \E got \in FetchResults(pending) :
          LET c == [clk EXCEPT !.updated = got, !.nfetch = 2]
          IN  CASE AfterEviction(got) = "rerender" /\ clk.uuid = "" ->
                     /\ Return(c, "error_shown")
                     /\ chat' = [chat EXCEPT ![clk.key].state = "error_shown"]
                [] AfterEviction(got) = "rerender" /\ clk.uuid # "" ->
                     /\ Return(c, "mustevict")
                     /\ chat' = [chat EXCEPT
                           ![clk.key].state = "mustevict",
                           ![clk.key].list = [j \in 1..Len(got) |-> got[j].uuid],
                           ![clk.key].buttons = EvictKeyboard(clk.uuid, got)]
                [] AfterEviction(got) = "accept" /\ clk.uuid # "" ->
                     /\ clk' = [c EXCEPT !.pc = "cancel_accept"]
                     /\ served' = {}
                     /\ UNCHANGED chat
                [] OTHER ->
                     /\ Return(c, "evict_done")
                     /\ chat' = [chat EXCEPT ![clk.key].state = "evict_done"]
    /\ filtered' = {}
    /\ decided' = {}
    /\ UNCHANGED <<now, allPayouts, pending, ledgerFile, autoFile, userIds,
                   cyc, nSelected>>
    /\ said' = {}
    /\ UNCHANGED fsm

\* handle_cancel_callback, lines 779-803: the accept POST returns
CancelAccept ==
    /\ clk.pc = "cancel_accept"
    /\ \E out \in Outcomes :
          LET state == IF out = "ok" THEN "evict_accepted" ELSE "evict_done"
              muts == Append(clk.muts, ClickMutation("accept", clk.uuid, out,
                                                     clk.nfetch, Len(clk.updated)))
          IN  /\ out = "ok" => CanAccept(clk.uuid)
              /\ pending' = AfterAccept(clk.uuid, out)
              /\ Return([clk EXCEPT !.muts = muts], state)
              /\ chat' = [chat EXCEPT ![clk.key].state = state]
    /\ filtered' = {}
    /\ decided' = {}
    /\ UNCHANGED <<now, allPayouts, ledgerFile, autoFile, userIds, cyc,
                   nSelected>>
    /\ said' = {}
    /\ UNCHANGED fsm

Handler ==
    \/ ClickAccept
    \/ AcceptPost
    \/ ClickCancel
    \/ CancelFetch
    \/ CancelPost
    \/ CancelRefetch
    \/ CancelAccept

\* a click whose callback data is not what the bot put on the button
ClickMalformed ==
    /\ clk.pc = "idle"
    /\ \E key \in DOMAIN chat :
          /\ chat[key].buttons # <<>>
          /\ chat[key].clicks < MaxClicks
          /\ \E d \in Malformed(chat[key].buttons[1]) :
                IF d.op = "accept" THEN AcceptClicked(key, d)
                ELSE CancelClicked(key, d)
    /\ filtered' = {}
    /\ decided' = {}
    /\ UNCHANGED <<now, allPayouts, pending, ledgerFile, autoFile, userIds,
                   cyc, nSelected>>
    /\ said' = {}
    /\ UNCHANGED fsm

----------------------------------------------------------------------------
(* Environment *)

\* the backend lists a new payout
BackendCreate ==
    /\ Len(allPayouts) < MaxPayouts
    /\ \E k \in NewKinds(now) :
          allPayouts' = Append(allPayouts,
                               Payout(NewUuids[Len(allPayouts) + 1], k[1], k[2]))
    /\ filtered' = {}
    /\ decided' = {}
    /\ served' = {}
    /\ UNCHANGED <<chat, clk, now, pending, ledgerFile, autoFile, userIds, cyc,
                   nSelected>>
    /\ said' = {}
    /\ UNCHANGED fsm

\* a second passes
Tick ==
    /\ now < MaxTicks
    /\ now' = now + 1
    /\ filtered' = {}
    /\ decided' = {}
    /\ served' = {}
    /\ UNCHANGED <<chat, clk, allPayouts, pending, ledgerFile, autoFile, userIds, cyc,
                   nSelected>>
    /\ said' = {}
    /\ UNCHANGED fsm

----------------------------------------------------------------------------
(* The periodic poll alone: periodic_check with no operator input *)

Cycle(p) ==
    \/ CycleStart(p)
    \/ FetchAll(p)
    \/ FetchPending(p)
    \/ AutoFetch(p)
    \/ AutoCancel(p)
    \/ AutoAccept(p)
    \/ ManualFetch(p)

NextPoll ==
    \/ Cycle("poll")
    \/ BackendCreate
    \/ Tick

SpecPoll == Init /\ [][NextPoll]_vars

----------------------------------------------------------------------------
(* The periodic poll and the /update command: handle_update runs the same
   check_payouts on the same event loop, interleaved at the await points *)

NextUpdate ==
    \/ Cycle("poll")
    \/ Cycle("update")
    \/ BackendCreate
    \/ Tick

\* start states of the two-cycle runs: one pending payout or five, automatic
\* mode off or on without a range, one subscribed operator
InitUpdate ==
    /\ Init
    /\ pending \in {InitPending(<<Num(3)>>),
                    InitPending(<<Num(3), Num(1), Num(3), Num(1), Num(5)>>)}
    /\ autoFile \in {AutoMode(FALSE, None, None), AutoMode(TRUE, None, None)}
    /\ userIds = Users

SpecUpdate == InitUpdate /\ [][NextUpdate]_vars

----------------------------------------------------------------------------
(* The periodic poll with an operator answering the notifications *)

\* check_payouts while automatic mode is off
ManualCycle(p) ==
    \/ CycleStart(p)
    \/ FetchAll(p)
    \/ FetchPending(p)
    \/ ManualFetch(p)

\* start states of the runs with an operator: four or six pending payouts,
\* automatic mode off, one subscribed operator
InitClick ==
    /\ now = 0
    /\ allPayouts = <<>>
    /\ pending \in {InitPending(<<Num(5), Num(1), Num(1), Num(3)>>),
                    InitPending(<<Num(3), Num(1), Num(3), Num(1), Num(5), Num(3)>>)}
    /\ ledgerFile = {}
    /\ autoFile = AutoMode(FALSE, None, None)
    /\ userIds = Users
    /\ cyc = [p \in Procs |-> IdleCyc]
    /\ filtered = {}
    /\ decided = {}
    /\ nSelected = [u \in Range(NewUuids) |-> 0]
    /\ chat = [key \in Users \X Range(NewUuids) |-> NoNotice]
    /\ clk = IdleClk
    /\ served = {}
    /\ fsm = [u \in Users |-> "none"]
    /\ said = {}

NextClick ==
    \/ ManualCycle("poll")
    \/ Handler
    \/ BackendCreate

SpecClick == InitClick /\ [][NextClick]_vars

\* start states of the runs where the poll decides by itself while an
\* operator evicts: five pending payouts, automatic mode on for [3, 3]
InitRace ==
    /\ now = 0
    /\ allPayouts = <<>>
    /\ pending = InitPending(<<Num(3), Num(1), Num(3), Num(1), Num(5)>>)
    /\ ledgerFile = {}
    /\ autoFile = AutoMode(TRUE, Some(Num(3)), Some(Num(3)))
    /\ userIds = Users
    /\ cyc = [p \in Procs |-> IdleCyc]
    /\ filtered = {}
    /\ decided = {}
    /\ nSelected = [u \in Range(NewUuids) |-> 0]
    /\ chat = [key \in Users \X Range(NewUuids) |-> NoNotice]
    /\ clk = IdleClk
    /\ served = {}
    /\ fsm = [u \in Users |-> "none"]
    /\ said = {}

NextRace ==
    \/ Cycle("poll")
    \/ Handler
    \/ BackendCreate

SpecRace == InitRace /\ [][NextRace]_vars

----------------------------------------------------------------------------
(* Progress: periodic_check loops for ever and every await returns, each
   backend call being bounded by its timeout; a started handler runs on,
   while clicking is up to the operator *)

\* the steps of a callback handler after the click
HandlerStep ==
    \/ AcceptPost
    \/ CancelFetch
    \/ CancelPost
    \/ CancelRefetch
    \/ CancelAccept

\* start states of the progress runs: five pending payouts, all amounts
\* numbers or one of them unparsable, automatic mode on for [3, 3]
InitLive ==
    /\ now = 0
    /\ allPayouts = <<>>
    /\ pending \in {InitPending(<<Num(3), Num(1), Num(3), Num(1), Num(5)>>),
                    InitPending(<<Num(3), Bad, Num(1), Num(3), Num(5)>>)}
    /\ ledgerFile = {}
    /\ autoFile = AutoMode(TRUE, Some(Num(3)), Some(Num(3)))
    /\ userIds = Users
    /\ cyc = [p \in Procs |-> IdleCyc]
    /\ filtered = {}
    /\ decided = {}
    /\ nSelected = [u \in Range(NewUuids) |-> 0]
    /\ chat = [key \in Users \X Range(NewUuids) |-> NoNotice]
    /\ clk = IdleClk
    /\ served = {}
    /\ fsm = [u \in Users |-> "none"]
    /\ said = {}

SpecLive ==
    /\ InitLive
    /\ [][NextRace]_vars
    /\ WF_vars(Cycle("poll"))
    /\ WF_vars(HandlerStep)

----------------------------------------------------------------------------
(* Clicks with callback data the bot did not write *)

\* start state of the runs with malformed clicks: five pending payouts,
\* automatic mode off, one subscribed operator
InitPayload ==
    /\ now = 0
    /\ allPayouts = <<>>
    /\ pending = InitPending(<<Num(3), Num(1), Num(3), Num(1), Num(5)>>)
    /\ ledgerFile = {}
    /\ autoFile = AutoMode(FALSE, None, None)
    /\ userIds = Users
    /\ cyc = [p \in Procs |-> IdleCyc]
    /\ filtered = {}
    /\ decided = {}
    /\ nSelected = [u \in Range(NewUuids) |-> 0]
    /\ chat = [key \in Users \X Range(NewUuids) |-> NoNotice]
    /\ clk = IdleClk
    /\ served = {}
    /\ fsm = [u \in Users |-> "none"]
    /\ said = {}

NextPayload ==
    \/ ManualCycle("poll")
    \/ Handler
    \/ ClickMalformed
    \/ BackendCreate

SpecPayload == InitPayload /\ [][NextPayload]_vars

----------------------------------------------------------------------------
(* The /mode dialogue.  A handler is one action: its file write, its reply
   and its FSM update; a reply the chat transport rejects raises. *)

\* message.text.strip() as handle_range_input reads it: the text "0", two
\* parts around one "-", or anything else
Zero == [kind |-> "zero"]

Pair(lo, hi) == [kind |-> "pair", lo |-> lo, hi |-> hi]

Other == [kind |-> "other"]

\* the texts an operator sends while asked for a range
RangeTexts ==
    {Zero, Pair(Num(3), Num(3)), Pair(Num(5), Num(3)), Pair(NaN, Num(3)),
     Pair(Bad, Num(3)), Other}

\* lines 565-573: the ValueError raised for a text that is not "0"
RangeRaises(text) ==
    \/ text.kind = "other"
    \/ /\ text.kind = "pair"
       /\ \/ FloatRaises(text.lo) \/ FloatRaises(text.hi)
          \/ FloatLt(text.lo, Num(0)) \/ FloatLt(text.hi, Num(0))
          \/ FloatGt(text.lo, text.hi)

\* the configuration save_auto_mode writes for an accepted text
RangeConfig(text) ==
    IF text.kind = "zero" THEN AutoMode(TRUE, None, None)
    ELSE AutoMode(TRUE, Some(text.lo), Some(text.hi))

\* an operator message as a handler received it
Said(cmd, u, text) == [cmd |-> cmd, user |-> u, text |-> text]

\* handle_mode: /mode from operator u
Mode(u) ==
    /\ IF autoFile.enabled
       THEN /\ autoFile' = AutoMode(FALSE, None, None)
            /\ UNCHANGED fsm
       ELSE /\ UNCHANGED autoFile
            /\ \E replied \in BOOLEAN :
                  fsm' = IF replied
                         THEN [fsm EXCEPT ![u] = "waiting_for_range"] ELSE fsm
    /\ said' = {Said("mode", u, Other)}
    /\ filtered' = {}
    /\ decided' = {}
    /\ served' = {}
    /\ UNCHANGED <<now, allPayouts, pending, ledgerFile, userIds, cyc,
                   nSelected, chat, clk>>

\* handle_range_input: a text from operator u while a range is awaited
RangeInput(u) ==
    /\ fsm[u] = "waiting_for_range"
    /\ \E text \in RangeTexts, replied \in BOOLEAN :
          /\ IF RangeRaises(text)
             THEN UNCHANGED <<autoFile, fsm>>
             ELSE /\ autoFile' = RangeConfig(text)
                  /\ fsm' = IF replied THEN [fsm EXCEPT ![u] = "none"] ELSE fsm
          /\ said' = {Said("range", u, text)}
    /\ filtered' = {}
    /\ decided' = {}
    /\ served' = {}
    /\ UNCHANGED <<now, allPayouts, pending, ledgerFile, userIds, cyc,
                   nSelected, chat, clk>>

\* start states of the runs with the /mode dialogue: five pending payouts
\* and a new one of amount 3 listed by the backend, one subscribed operator,
\* any of the three kinds of configuration
InitMode ==
    /\ now = 0
    /\ allPayouts = <<Payout(NewUuids[1], Num(3), Plus03(0 - RecentSeconds))>>
    /\ pending = InitPending(<<Num(3), Num(1), Num(3), Num(1), Num(5)>>)
    /\ ledgerFile = {}
    /\ autoFile \in InitAutoModes
    /\ userIds = Users
    /\ cyc = [p \in Procs |-> IdleCyc]
    /\ filtered = {}
    /\ decided = {}
    /\ nSelected = [u \in Range(NewUuids) |-> 0]
    /\ chat = [key \in Users \X Range(NewUuids) |-> NoNotice]
    /\ clk = IdleClk
    /\ served = {}
    /\ fsm = [u \in Users |-> "none"]
    /\ said = {}

NextMode ==
    \/ \E u \in Users : Mode(u)
    \/ \E u \in Users : RangeInput(u)
    \/ Cycle("poll")
    \/ Handler

SpecMode == InitMode /\ [][NextMode]_vars

----------------------------------------------------------------------------
(* Vocabulary of the properties *)

\* the decision went down the automatic evict path
Evicting(d) == d.route = "auto" /\ Len(d.fetched) >= CAPACITY

\* the configuration has no range, or the amount lies in it, bounds included
Admissible(d) ==
    \/ ~(d.cfg.min.some /\ d.cfg.max.some)
    \/ /\ d.amount.k = "num"
       /\ d.cfg.min.v.v <= d.amount.v
       /\ d.amount.v <= d.cfg.max.v.v

Ranged(d) == d.cfg.enabled /\ d.cfg.min.some /\ d.cfg.max.some

\* the sequence of operations a decision issued
Ops(d) == [j \in 1..Len(d.muts) |-> <<d.muts[j].op, d.muts[j].uuid>>]

\* cancel-smallest-then-accept: the cancel of the victim, and the accept of
\* the new payout behind it unless the cancel call failed
EvictThenAccept(d) ==
    /\ Len(d.muts) >= 1
    /\ Ops(d)[1] = <<"cancel", d.victim.uuid>>
    /\ IF Status200(d.muts[1].out)
       THEN Ops(d) = <<<<"cancel", d.victim.uuid>>, <<"accept", d.uuid>>>>
       ELSE Len(d.muts) = 1

\* the finite pending amounts of a filter run
Comparable(f) ==
    {f.pend[j].amount : j \in {i \in 1..Len(f.pend) : f.pend[i].amount.k = "num"}}

\* seconds between a payout's creation and the filter run
Age(po, f) == f.at - ToUtc(po.ctime)

\* the payout passes every test of the filter but the recency test
OtherwiseQualifying(po, f) ==
    /\ po.uuid \notin f.loaded
    /\ po.amount.k = "num"
    /\ \E c \in Comparable(f) : po.amount.v > c.v

Selected(po, f) == po \in Range(f.selected)

\* the notification was first shown with 6 pending items, each of its
\* cancels succeeded, and no other notification has been clicked
CleanFromSix(key) ==
    /\ chat[key].start = 6
    /\ chat[key].clean
    /\ \A other \in DOMAIN chat : other # key => chat[other].clicks = 0

----------------------------------------------------------------------------
(* Properties *)

\* C1: with only the periodic poll running (no operator interaction), the
\* backend's pending count never exceeds 5.
C1_CapacityNeverExceeded == Len(pending) <= CAPACITY

\* C2: on the automatic evict path an accept is issued only second, behind
\* the cancel of the victim, and only if that cancel actually cancelled it.
C2_AcceptOnlyAfterCancelSucceeded ==
    \A d \in decided :
        Evicting(d) =>
            \A j \in 1..Len(d.muts) :
                d.muts[j].op = "accept" =>
                    /\ j = 2
                    /\ Ops(d)[1] = <<"cancel", d.victim.uuid>>
                    /\ d.muts[1].out = "ok"

\* C3: automatic mode disabled: the payout is deferred and no mutation is
\* issued; enabled and the amount unbounded or in range: pending count < 5
\* yields exactly one accept of the new payout, pending count >= 5 yields
\* cancel-smallest-then-accept.
C3_RulesInOrder ==
    \A d \in decided :
        /\ ~d.cfg.enabled => d.route = "manual" /\ d.muts = <<>>
        /\ d.cfg.enabled /\ Admissible(d) =>
              /\ d.route = "auto"
              /\ IF Len(d.fetched) < CAPACITY
                 THEN Ops(d) = <<<<"accept", d.uuid>>>>
                 ELSE EvictThenAccept(d)

\* C4: under a configured range a payout whose amount is outside [min, max]
\* is deferred to a human and no mutation is issued for it, whatever the
\* pending count; a payout whose amount is inside, bounds included, takes the
\* automatic branch: one accept below 5 pending, cancel-smallest-then-accept
\* from 5 on.
C4_RangedAutoMode ==
    /\ \A p \in Procs : cyc[p].route = "manual" => cyc[p].muts = <<>>
    /\ \A d \in decided :
          Ranged(d) =>
             IF Admissible(d)
             THEN /\ d.route = "auto"
                  /\ \A m \in d.sent : m.kind = "auto"
                  /\ Len(d.fetched) < CAPACITY => Ops(d) = <<<<"accept", d.uuid>>>>
                  /\ Len(d.fetched) >= CAPACITY /\ ~MinRaises(d.fetched) =>
                        EvictThenAccept(d)
             ELSE /\ d.route = "manual"
                  /\ d.muts = <<>>
                  /\ \A m \in d.sent : m.kind \in {"offer", "mustevict"}

\* a payout below the range was offered to an operator although fewer than
\* 5 were pending
C4_Witness ==
    \E d \in decided :
        /\ Ranged(d) /\ d.amount.k = "num" /\ d.amount.v < d.cfg.min.v.v
        /\ Len(pending) < CAPACITY /\ Len(d.fetched) = Len(pending)
        /\ d.route = "manual" /\ d.sent # {}

\* C5: the victim the automatic path cancels is an item of minimum amount of
\* the fetched pending list, and the first such item in the list's order.
C5_VictimIsFirstMinimum ==
    \A d \in decided :
        (d.muts # <<>> /\ d.muts[1].op = "cancel") =>
            \E j \in 1..Len(d.fetched) :
                /\ d.fetched[j].uuid = d.muts[1].uuid
                /\ \A k \in 1..Len(d.fetched) :
                      FloatLe(d.fetched[j].amount, d.fetched[k].amount)
                /\ \A k \in 1..(j - 1) :
                      d.fetched[k].amount # d.fetched[j].amount

\* C6: a payout whose identifier is in the ledger loaded at the start of a
\* cycle is never selected by that cycle's filter and never passed to
\* notify_users.
C6_Dedup ==
    /\ \A f \in filtered : \A po \in Range(f.selected) : po.uuid \notin f.loaded
    /\ \A p \in Procs : \A po \in Range(cyc[p].recent) : po.uuid \notin cyc[p].loaded
    /\ \A d \in decided : d.uuid \notin d.loaded

\* a processed payout that is recent and exceeds a pending amount was passed
\* over by the filter
C6_Witness ==
    \E f \in filtered : \E po \in Range(f.all) :
        /\ po.uuid \in f.loaded
        /\ po.amount.k = "num" /\ \E c \in Comparable(f) : po.amount.v > c.v
        /\ Age(po, f) <= RecentSeconds
        /\ ~Selected(po, f)

C9_NoComparableAmounts ==
    \A f \in filtered :
        Comparable(f) = {} =>
            /\ f.selected = <<>>
            /\ decided = {}
            /\ cyc[f.proc] = IdleCyc
            /\ ledgerFile = f.loaded

\* a non-empty pending list without a finite amount met a recent,
\* unprocessed payout
C9_Witness ==
    \E f \in filtered : \E po \in Range(f.all) :
        /\ Len(f.pend) > 0 /\ Comparable(f) = {}
        /\ po.uuid \notin f.loaded /\ po.amount.k = "num"
        /\ Age(po, f) <= RecentSeconds

\* C10: in the periodic poll, a payout that notify_users handled is in the
\* cycle's processed set at once and in the persisted ledger when the cycle
\* ends, whatever became of its messages and mutations, and no later cycle
\* selects or handles it again.
C10_NeverReoffered ==
    /\ \A d \in decided :
          /\ d.uuid \in ledgerFile \cup cyc["poll"].processed
          /\ d.uuid \notin d.loaded
    /\ cyc["poll"].pc = "idle" =>
          \A u \in DOMAIN nSelected : nSelected[u] >= 1 => u \in ledgerFile
    /\ \A u \in DOMAIN nSelected : nSelected[u] <= 1

\* the cycle ended with a payout in the ledger whose accept call failed
C10_Witness ==
    \E d \in decided :
        /\ cyc["poll"].pc = "idle"
        /\ d.uuid \in ledgerFile
        /\ \E j \in 1..Len(d.muts) :
              d.muts[j].op = "accept" /\ d.muts[j].out = "error"

\* C11: a payout's identifier enters the cycle's processed set only once
\* notify_users has returned for it: while the cycle runs, the identifiers
\* added so far are exactly those of the payouts already handled, the payout
\* being handled is not among them, and the persisted ledger holds no
\* identifier the intake filter never selected.
C11_LedgerAfterDecision ==
    /\ \A p \in Procs :
          LET c == cyc[p]
          IN  /\ c.processed \ c.loaded = {c.recent[j].uuid : j \in 1..(c.i - 1)}
              /\ c.i >= 1 => c.recent[c.i].uuid \notin c.processed \cup ledgerFile
    /\ \A u \in ledgerFile : u \in DOMAIN nSelected /\ nSelected[u] >= 1
    /\ \A d \in decided : nSelected[d.uuid] >= 1

\* the second selected payout is being decided with only the first marked
C11_Witness ==
    /\ cyc["poll"].i = 2
    /\ cyc["poll"].pc \in {"auto_fetch", "manual_fetch"}
    /\ cyc["poll"].processed = {cyc["poll"].recent[1].uuid}

\* C12: every write of the persisted ledger keeps the identifiers that were
\* in it, under every interleaving of the periodic cycle with an /update
\* cycle.
C12_LedgerGrowsMonotonically == [][ledgerFile \subseteq ledgerFile']_vars

\* C13: a payout deferred to a human is announced with exactly one accept
\* button bound to its identifier when the pending count fetched for the
\* notification is <= 4, and with one numbered eviction button per pending
\* item, in the list's order and each carrying the new payout's identifier,
\* when that count is >= 5.
C13_ManualStateSelection ==
    \A d \in decided : \A m \in d.sent :
        d.route = "manual" =>
            /\ m.uuid = d.uuid
            /\ chat[<<m.to, d.uuid>>].buttons = m.buttons
            /\ IF Len(d.fetched) <= 4
               THEN /\ m.kind = "offer"
                    /\ Len(m.buttons) = 1
                    /\ m.buttons[1].op = "accept"
                    /\ Decode(m.buttons[1].data) = d.uuid
               ELSE /\ m.kind = "mustevict"
                    /\ Len(m.buttons) = Len(d.fetched)
                    /\ Len(m.list) = Len(d.fetched)
                    /\ \A j \in 1..Len(d.fetched) :
                          /\ m.buttons[j].op = "cancel"
                          /\ m.buttons[j].idx = j - 1
                          /\ Decode(m.buttons[j].data) = d.uuid
                          /\ m.list[j] = d.fetched[j].uuid

\* with automatic mode off, an empty ledger and one pending payout, a larger
\* new payout was offered with its single accept button
C13_Witness ==
    \E d \in decided : \E m \in d.sent :
        /\ ~d.cfg.enabled /\ d.loaded = {}
        /\ Len(d.fetched) = 1 /\ d.fetched = pending
        /\ d.amount.v > d.fetched[1].amount.v
        /\ m.kind = "offer" /\ Len(m.buttons) = 1

\* C14: the payout a numbered click cancels is the item at the clicked
\* position of the pending list fetched for that click, whatever list the
\* message showed; when the position lies outside the fetched list the
\* operator is shown an error and no cancel or accept is issued.
C14_IndexAgainstFreshList ==
    /\ clk.pc \in {"cancel_post", "cancel_refetch", "cancel_accept"} =>
          /\ clk.k < Len(clk.fetched)
          /\ clk.target = clk.fetched[clk.k + 1].uuid
          /\ \A j \in 1..Len(clk.muts) :
                clk.muts[j].op = "cancel" => clk.muts[j].uuid = clk.target
    /\ \A r \in served :
          r.op = "cancel" =>
             IF r.k < Len(r.fetched)
             THEN /\ r.muts # <<>>
                  /\ r.muts[1] = ClickMutation("cancel", r.fetched[r.k + 1].uuid,
                                               r.muts[1].out, 1, Len(r.fetched))
                  /\ \A j \in 2..Len(r.muts) : r.muts[j].op = "accept"
             ELSE /\ r.muts = <<>>
                  /\ r.pc = "index_error"
                  /\ chat[r.key].state = "index_error"
                  /\ chat[r.key].buttons = <<>>

\* a click cancelled the item now at the clicked position although the
\* message showed another item there
C14_Witness ==
    \E r \in served :
        /\ r.op = "cancel" /\ r.k < Len(r.fetched) /\ r.k < Len(r.rendered)
        /\ r.rendered[r.k + 1] # r.fetched[r.k + 1].uuid
        /\ r.muts # <<>> /\ r.muts[1].uuid = r.fetched[r.k + 1].uuid
        /\ r.muts[1].out = "ok"

\* C15: once the cancel call of a manual eviction has returned with status
\* 200 the pending list is fetched again; if its count is still >= 5 the
\* message shows the updated list with one eviction button per item, each
\* carrying the same new-payout identifier, and no accept is issued; if it
\* is < 5 an accept is issued for that identifier and the message keeps no
\* button.
C15_AfterManualEviction ==
    /\ clk.pc = "cancel_accept" =>
          /\ clk.nfetch = 2 /\ Len(clk.updated) < 5
          /\ clk.uuid = clk.key[2]
    /\ \A r \in served :
          (r.op = "cancel" /\ r.muts # <<>> /\ Status200(r.muts[1].out)) =>
             /\ r.nfetch = 2
             /\ r.uuid = r.key[2]
             /\ IF Len(r.updated) >= 5
                THEN /\ Len(r.muts) = 1
                     /\ r.pc = "mustevict"
                     /\ chat[r.key].state = "mustevict"
                     /\ chat[r.key].list = [j \in 1..Len(r.updated) |->
                                               r.updated[j].uuid]
                     /\ Len(chat[r.key].buttons) = Len(r.updated)
                     /\ \A j \in 1..Len(r.updated) :
                           chat[r.key].buttons[j] = Button("cancel", j - 1, r.uuid)
                ELSE /\ Len(r.muts) = 2
                     /\ r.muts[2].op = "accept"
                     /\ r.muts[2].uuid = r.uuid
                     /\ r.muts[2].count = Len(r.updated)
                     /\ chat[r.key].buttons = <<>>
                     /\ chat[r.key].state \in {"evict_accepted", "evict_done"}

\* an eviction left exactly 5 pending and the list was shown again
C15_Witness ==
    \E r \in served :
        /\ r.op = "cancel" /\ r.muts # <<>> /\ r.muts[1].out = "ok"
        /\ Len(r.fetched) = 6
        /\ Len(r.updated) = 5 /\ r.updated = pending
        /\ chat[r.key].state = "mustevict"

\* C16: for a notification first shown with 6 pending items, with every
\* cancel succeeding and nothing else changing the pending set, each click
\* lowers the count fetched after it by exactly 1 (6 to 5, then 5 to 4), the
\* first click shows the list again, the second issues the accept of the new
\* payout, no third click is made, and the list is never shown again on a
\* count below 5.
C16_EvictionLoopTerminates ==
    /\ \A key \in DOMAIN chat :
          CleanFromSix(key) =>
             /\ chat[key].clicks <= 2
             /\ (clk.key = key /\ clk.pc \in {"cancel_post", "cancel_refetch",
                                              "cancel_accept"}) =>
                   Len(clk.fetched) = 6 - (chat[key].clicks - 1)
             /\ (clk.key = key /\ clk.pc = "cancel_accept") =>
                   Len(clk.updated) = Len(clk.fetched) - 1
             /\ \A r \in served :
                   r.key = key =>
                      /\ Len(r.fetched) = 6 - (chat[key].clicks - 1)
                      /\ Len(r.updated) = Len(r.fetched) - 1
                      /\ chat[key].clicks = 1 => r.pc = "mustevict"
                      /\ chat[key].clicks = 2 =>
                            /\ Len(r.muts) = 2
                            /\ r.muts[2].op = "accept"
                            /\ r.muts[2].uuid = key[2]
    /\ \A r \in served : r.pc = "mustevict" => Len(r.updated) >= 5

\* C17: every accept and every cancel a callback handler issues comes after
\* a fetch of the pending list made by the same invocation, and an accept
\* is issued only when the count that fetch returned is below 5.
C17_MutationsAfterLiveFetch ==
    \A r \in served : \A j \in 1..Len(r.muts) :
        /\ r.muts[j].after >= 1
        /\ r.muts[j].op = "accept" => r.muts[j].count < 5

\* C18: with an operator's eviction and the poll's automatic decision
\* interleaved, each of the two accepts only on a fetched count below 5 of
\* its own, and yet both can accept and leave more than 5 pending (the
\* reachable state is C18_Witness).
C18_EachAcceptSawRoom ==
    /\ \A d \in decided :
          (d.route = "auto" /\ d.muts # <<>> /\ d.muts[1].op = "accept") =>
             Len(d.fetched) < 5
    /\ (cyc["poll"].pc = "auto_accept" /\ cyc["poll"].muts = <<>>) =>
          Len(cyc["poll"].fetched) < 5
    /\ clk.pc = "cancel_accept" => Len(clk.updated) < 5
    /\ \A r \in served :
          r.op = "cancel" =>
             \A j \in 1..Len(r.muts) :
                r.muts[j].op = "accept" =>
                   /\ r.muts[j].count = Len(r.updated)
                   /\ r.muts[j].count < 5

\* the operator's eviction made room and accepted its payout, the poll had
\* fetched 4 pending in between and accepted another: 6 are pending
C18_Witness ==
    \E d \in decided : \E key \in DOMAIN chat :
        /\ d.route = "auto" /\ Len(d.fetched) = 4
        /\ d.muts = <<Mutation("accept", d.uuid, "ok")>>
        /\ key[2] # d.uuid
        /\ chat[key].state = "evict_accepted"
        /\ key[2] \in Uuids(pending) /\ d.uuid \in Uuids(pending)
        /\ Len(pending) = 6

\* C19: whichever fetch, accept or cancel fails, the poll cycle in progress
\* ends and periodic_check starts another one, again and again; a callback
\* handler that was started ends as well, and the poll goes on beside it.
C19_NoErrorIsFatal ==
    /\ []<>(cyc["poll"].pc = "idle")
    /\ []<><<CycleStart("poll")>>_vars
    /\ (clk.pc # "idle") ~> (clk.pc = "idle")

\* a poll cycle ended straight after its cancel call failed
C19_Witness ==
    \E d \in decided :
        /\ cyc["poll"].pc = "idle"
        /\ d.muts = <<Mutation("cancel", d.victim.uuid, "error")>>

\* C20: whenever the automatic path cancels a pending item to admit a new
\* payout, the cancelled item's amount is strictly smaller than the new
\* payout's amount, also for the second and later payouts of one cycle.
C20_VictimSmallerThanAdmitted ==
    \A d \in decided :
        (d.route = "auto" /\ d.muts # <<>> /\ d.muts[1].op = "cancel"
                          /\ d.muts[1].out = "ok") =>
            /\ d.muts[1].uuid = d.victim.uuid
            /\ FloatLt(d.victim.amount, d.amount)

\* C21: no payout is selected and passed to notify_users more than once in
\* total, also when an /update cycle overlaps the periodic cycle: two cycles
\* are never handling the same payout, and none is selected a second time.
C21_HandledAtMostOnce ==
    /\ \A u \in DOMAIN nSelected : nSelected[u] <= 1
    /\ \A p, q \in Procs :
          (p # q /\ cyc[p].i >= 1 /\ cyc[q].i >= 1) =>
             cyc[p].recent[cyc[p].i].uuid # cyc[q].recent[cyc[q].i].uuid

\* C22: a click whose payload is malformed (an index that is no number, or a
\* new-payout identifier that is missing or cannot be decoded) ends with an
\* error shown to the operator and with no accept or cancel sent to the
\* backend; the eviction handler cancels nothing when it has no identifier
\* to accept afterwards.
C22_MalformedClickAborts ==
    \A r \in served :
       (r.pc = "bad_button" \/ r.uuid = "") =>
          /\ r.muts = <<>>
          /\ r.pc \in {"bad_button", "error_shown", "index_error"}

\* C23: a pending fetch that failed (it returns the empty list although
\* payouts are pending) never leads to an admission: neither the automatic
\* decision nor the handler after a manual eviction goes on to send the
\* accept on the count of such a fetch.
C23_FailedFetchNeverAdmits ==
    [][/\ \A p \in Procs :
             (cyc[p].pc = "auto_fetch" /\ pending # <<>>
                /\ cyc'[p].pc = "auto_accept") => cyc'[p].fetched # <<>>
       /\ (clk.pc = "cancel_refetch" /\ pending # <<>>
             /\ clk'.pc = "cancel_accept") => clk'.updated # <<>>]_vars

C25_BroadcastOnlyAfterAccepted ==
    \A d \in decided :
       (\E m \in d.sent : m.kind = "auto") =>
          /\ d.muts # <<>>
          /\ d.muts[Len(d.muts)].op = "accept"
          /\ d.muts[Len(d.muts)].uuid = d.uuid
          /\ \A j \in 1..Len(d.muts) : d.muts[j].out = "ok"

\* a text that names a range: two finite numbers with 0 <= min <= max
ValidRange(text) ==
    /\ text.kind = "pair"
    /\ IsFinite(text.lo) /\ IsFinite(text.hi)
    /\ 0 <= text.lo.v /\ text.lo.v <= text.hi.v

\* C26: the automatic-mode configuration changes only through operator
\* commands.  /mode while enabled sets it to disabled; /mode while disabled
\* changes nothing; the text "0" enables it without a range and a valid
\* min-max enables it with that range; an invalid text leaves it unchanged
\* with the dialogue still waiting for a range; no step of a poll cycle or
\* of a click handler modifies it.
C26_ConfigOnlyByCommands ==
    [][/\ said' = {} => autoFile' = autoFile
       /\ \A m \in said' :
             /\ (m.cmd = "mode" /\ autoFile.enabled) =>
                   autoFile' = AutoMode(FALSE, None, None)
             /\ (m.cmd = "mode" /\ ~autoFile.enabled) => autoFile' = autoFile
             /\ (m.cmd = "range" /\ m.text.kind = "zero") =>
                   autoFile' = AutoMode(TRUE, None, None)
             /\ (m.cmd = "range" /\ ValidRange(m.text)) =>
                   autoFile' = AutoMode(TRUE, Some(m.text.lo), Some(m.text.hi))
             /\ (m.cmd = "range" /\ m.text.kind # "zero" /\ ~ValidRange(m.text)) =>
                   /\ autoFile' = autoFile
                   /\ fsm'[m.user] = "waiting_for_range"]_vars

\* C27: the persisted automatic-mode configuration is always disabled with
\* no range, enabled with no range, or enabled with both bounds set and
\* 0 <= min <= max; never disabled with a range, never with one bound only,
\* never with min > max.
C27_ConfigWellFormed ==
    \/ autoFile = AutoMode(FALSE, None, None)
    \/ autoFile = AutoMode(TRUE, None, None)
    \/ /\ autoFile.enabled
       /\ autoFile.min.some /\ autoFile.max.some
       /\ FloatLe(Num(0), autoFile.min.v)
       /\ FloatLe(autoFile.min.v, autoFile.max.v)

====
